---- MODULE Spec2Model ----
(***************************************************************************)
(* The rate-limited request queue of apps/api/src/rate-limiter.ts          *)
(* (XAPIRateLimiter) and the daily sync handler of the cron handlers       *)
(* (handleDailyXSync) that pulls every connected account through it.       *)
(*                                                                         *)
(* Time is a clock that advances in steps of TickMs.  Only the difference  *)
(* Date.now() - windowStart is ever read by the code, and only compared    *)
(* with windowDurationMs or subtracted from it while it is smaller, so the *)
(* model keeps that difference (sinceWindowStart), saturated at            *)
(* windowDurationMs.  A setTimeout of ms milliseconds is a countdown that  *)
(* may fire once it has reached 0 (timers fire at or after their time).    *)
(* Strings that the code inspects with String.includes are sequences of    *)
(* one-character strings.  response.json() of an ok response is taken to   *)
(* succeed.                                                                *)
(***************************************************************************)
EXTENDS Integers, Sequences, FiniteSets, TLC

\* ------------------------------------------------------------------ bounds
MaxItems == 3       \* makeRequest calls in one behaviour
MaxAccounts == 10   \* connected accounts of a run whose loop is over
MaxInvocations == 2 \* invocations of handleDailyXSync against one store
MaxClock == 3       \* milliseconds that pass while those invocations start
MaxChecks == 2      \* invocations of handleHealthCheck in one behaviour
MaxAttempt == 8     \* attempt numbers for which backoffTime is tabulated
MaxRequests == 2    \* requests to POST /sync/trigger in one behaviour
MaxLoops == 2       \* processQueue loops that can be alive at the same time
TickMs == 1000      \* clock granularity in milliseconds

ItemIds == 1..MaxItems
Loops == 1..MaxLoops

\* RateLimiterConfig values the limiter is constructed with.  The window
\* is reached by the second request, a retry falls inside the window.
Configs ==
  { [maxRequestsPerWindow |-> 1, windowDurationMs |-> 3000,
     requestDelayMs |-> 1000, maxRetries |-> 1] }

\* Configurations for the runs in which clearQueue is never called (one loop).
DrainConfigs ==
  Configs \cup
  { [maxRequestsPerWindow |-> 2, windowDurationMs |-> 4000,
     requestDelayMs |-> 2000, maxRetries |-> 2] }

\* ------------------------------------------------------------------ strings
Min(a, b) == IF a < b THEN a ELSE b

RECURSIVE Pow2(_)
Pow2(n) == IF n = 0 THEN 1 ELSE 2 * Pow2(n - 1)

DigitChar(d) ==
  CASE d = 0 -> "0" [] d = 1 -> "1" [] d = 2 -> "2" [] d = 3 -> "3"
    [] d = 4 -> "4" [] d = 5 -> "5" [] d = 6 -> "6" [] d = 7 -> "7"
    [] d = 8 -> "8" [] d = 9 -> "9"

\* The decimal digits of n, as a template literal prints a number.
RECURSIVE Decimal(_)
Decimal(n) ==
  IF n < 10 THEN <<DigitChar(n)>>
  ELSE Decimal(n \div 10) \o <<DigitChar(n % 10)>>

\* String.prototype.includes
Includes(s, pat) ==
  \E i \in 1..(Len(s) - Len(pat) + 1) : SubSeq(s, i, i + Len(pat) - 1) = pat

StrRateLimited == <<"R","a","t","e"," ","l","i","m","i","t","e","d">>
StrHTTP5 == <<"H","T","T","P"," ","5">>
StrHTTP == <<"H","T","T","P"," ">>
StrTimeout == <<"t","i","m","e","o","u","t">>
StrColon == <<":"," ">>
\* message of the TypeError a failed fetch rejects with
StrFetchFailed == <<"f","e","t","c","h"," ","f","a","i","l","e","d">>
\* message of the TimeoutError of an aborted fetch
StrAbortedTimeout ==
  <<"a","b","o","r","t","e","d"," ","d","u","e"," ","t","o"," ">> \o StrTimeout

\* Response.statusText: the reason phrase of the status line.
StatusText(status) ==
  CASE status = 200 -> <<"O","K">>
    [] status = 404 -> <<"N","o","t"," ","F","o","u","n","d">>
    [] status = 429 -> <<"T","o","o"," ","M","a","n","y">>
    [] status = 503 -> <<"U","n","a","v","a","i","l","a","b","l","e">>

\* ------------------------------------------------------------------ inputs
Statuses == {200, 404, 429, 503}
Absent == -1     \* a response header that is not present

\* What one invocation of requestFn can do: resolve with a Response, or
\* reject (the fetch throws) because the network failed or a timeout fired.
Outcomes ==
  { [thrown |-> FALSE, status |-> s, cause |-> "none"] : s \in Statuses }
    \cup { [thrown |-> TRUE, status |-> 0, cause |-> c] : c \in {"network", "timeout"} }

NoOutcome == [thrown |-> FALSE, status |-> 0, cause |-> "none"]

\* x-rate-limit-limit / x-rate-limit-remaining of a response
HeaderSets ==
  { [limit |-> Absent, remaining |-> Absent],
    [limit |-> 100, remaining |-> 14],
    [limit |-> 100, remaining |-> 15] }

VARIABLES
  config,            \* this.config
  requestQueue,      \* this.requestQueue: the ids of the queued closures
  requestCount,      \* this.requestCount
  sinceWindowStart,  \* Date.now() - this.windowStart, saturated
  isProcessing,      \* this.isProcessing
  loop,              \* each processQueue invocation that got past its guard
  future,            \* the promise makeRequest returned, per item
  nextId,            \* makeRequest calls so far + 1
  lastSettled,       \* the promise settled last, and how the item got there
  dispatched,        \* history: items in the order they were shifted
  sinceDispatch,     \* history: time since the last shift, up to requestDelayMs
  callsInWindow,     \* history: calls of requestFn inside the live window
  runPc,             \* handleDailyXSync: where the run is
  syncProgress,      \* handleDailyXSync: syncProgress
  account,           \* handleDailyXSync: position of the for loop (1-based)
  awaited,           \* the item syncAccountData awaits
  caught,            \* the error the outer catch received
  signaled,          \* the error the promise of handleDailyXSync rejected with
  syncState,         \* env.SYNC_STATE under the key sync-result-{syncId}
  writes,            \* history: puts that key has received
  alerts,            \* history: the messages given to sendSyncAlert
  nowMs,             \* Date.now() as the invocations of handleDailyXSync see it
  invocation,        \* each invocation of handleDailyXSync: where it is, its syncId
  syncResults,       \* env.SYNC_STATE under the keys sync-result-*
  henv,              \* what the dependencies of the health check answer
  hpc,               \* handleHealthCheck: where the invocation is
  healthChecks,      \* handleHealthCheck: healthChecks
  executed,          \* history: the checks this invocation has run
  cache,             \* env.CACHE under health-check-test and health-check
  healthAlerts,      \* history: the messages this invocation gave to sendHealthAlert
  healthNow,         \* Date.now() as the health check sees it
  hrun,              \* history: invocations of handleHealthCheck so far
  snapshots,         \* history: checks and healthy as each invocation computed them
  environment,       \* env.ENVIRONMENT
  schedPc,           \* handleScheduled for the daily cron: where it is
  startedBy,         \* history: who called handleDailyXSync last
  responses,         \* history: the statuses POST /sync/trigger answered
  manualRuns,        \* history: calls of handleDailyXSync by POST /sync/trigger
  lastSuccessfulSync, \* env.SYNC_STATE under the key last-successful-sync
  markerWrites,      \* history: puts that key has received
  fired              \* history: the other cron expressions handleScheduled got

limiterVars ==
  <<config, requestQueue, requestCount, sinceWindowStart, isProcessing, loop,
    future, nextId, lastSettled, dispatched, sinceDispatch, callsInWindow>>

runVars ==
  <<runPc, syncProgress, account, awaited, caught, signaled, syncState, writes,
    alerts>>

overlapVars == <<nowMs, invocation, syncResults>>

healthVars ==
  <<henv, hpc, healthChecks, executed, cache, healthAlerts, healthNow, hrun,
    snapshots>>

triggerVars ==
  <<environment, schedPc, startedBy, responses, manualRuns,
    lastSuccessfulSync, markerWrites, fired>>

vars == <<limiterVars, runVars, overlapVars, healthVars, triggerVars>>

\* A loop: where it is (pc), the item its closure holds, the attempt
\* parameter of makeRequestWithBackoff, the running timer, the response or
\* error in hand; and as history of the item's chain: the calls of requestFn,
\* the backoff waits, whether every outcome was throttled or transient.
IdleLoop ==
  [pc |-> "idle", item |-> 0, attempt |-> 0, timer |-> 0, err |-> NoOutcome,
   calls |-> 0, backoffs |-> 0, retryableOnly |-> TRUE]

NothingSettled ==
  [item |-> 0, how |-> "none", outcome |-> NoOutcome, attempt |-> 0,
   calls |-> 0, backoffs |-> 0, retryableOnly |-> TRUE]

\* new XAPIRateLimiter(config)
LimiterInit ==
  /\ requestQueue = <<>>
  /\ requestCount = 0
  /\ sinceWindowStart = 0
  /\ isProcessing = FALSE
  /\ loop = [w \in Loops |-> IdleLoop]
  /\ future = [i \in ItemIds |-> "unused"]
  /\ nextId = 1
  /\ lastSettled = NothingSettled
  /\ dispatched = <<>>
  /\ sinceDispatch = 0
  /\ callsInWindow = 0

NoError == "none"

\* the object literal syncProgress of a run over n accounts
NewProgress(n) ==
  [totalAccounts |-> n, processedAccounts |-> 0, successfulAccounts |-> 0,
   failedAccounts |-> 0, totalTweets |-> 0, errors |-> <<>>]

\* `sync-${Date.now()}` of the run
SyncId == "sync-now"

\* nothing is stored under sync-result-{syncId}
NoRecord == [id |-> "", error |-> NoError] @@ NewProgress(0)

\* no run has been started
RunInit ==
  /\ runPc = "idle"
  /\ syncProgress = NewProgress(0)
  /\ account = 0
  /\ awaited = 0
  /\ caught = NoError
  /\ signaled = NoError
  /\ syncState = NoRecord
  /\ writes = 0
  /\ alerts = <<>>

\* Invocations of handleDailyXSync that share env.SYNC_STATE (a cron firing,
\* a manual trigger) and the values Date.now() can give them.
Invocations == 1..MaxInvocations
ClockValues == 0..MaxClock

\* `sync-${Date.now()}`
SyncIdAt(ms) == <<"sync-", ms>>

\* `sync-result-${result.id}`
SyncResultKey(id) == <<"sync-result-">> \o id

\* nothing is stored under this sync-result-* key
NoResult == [run |-> 0]

\* no invocation has started, no sync-result-* key is written
OverlapInit ==
  /\ nowMs = 0
  /\ invocation = [r \in Invocations |-> [pc |-> "idle", syncId |-> <<>>]]
  /\ syncResults =
       [k \in {SyncResultKey(SyncIdAt(ms)) : ms \in ClockValues} |-> NoResult]

\* 1000 * 60 * 60
HourMs == 3600000

\* the values of env.ENVIRONMENT the code tells apart
Environments == {"production", "staging", "development"}

\* event.cron of the daily sync, and the other values handleScheduled gets
DailyCron == "30 2 * * *"
OtherCrons == {"0 */6 * * *", "0 0 1 * *", "unknown"}

\* nothing is stored under last-successful-sync
NoMarker == [cron |-> "none"]

\* c.json(..., 403), and the status of c.json without a status argument
StatusForbidden == 403
StatusOk == 200

\* no cron has fired and no request has come in
TriggerNotInvoked ==
  /\ schedPc = "idle"
  /\ startedBy = "none"
  /\ responses = <<>>
  /\ manualRuns = 0
  /\ lastSuccessfulSync = NoMarker
  /\ markerWrites = 0
  /\ fired = {}

\* the worker's entry points are not part of the behaviour
TriggerIdle ==
  /\ environment = "development"
  /\ TriggerNotInvoked

\* the keys of healthChecks
CheckNames == {"database", "xApi", "cache", "lastSync"}

\* healthChecks as handleHealthCheck declares it
NoChecks ==
  [database |-> FALSE, xApi |-> FALSE, cache |-> FALSE, lastSync |-> FALSE]

\* Date.now() of the first health check, and the timestamps a
\* last-successful-sync marker can carry: its age at the first check is 26 h,
\* 25 h, 25 h less a millisecond or 24 h.
FirstCheckAt == 26 * HourMs
MarkerStamps == {0, HourMs, HourMs + 1, 2 * HourMs}

\* What SYNC_STATE.get('last-successful-sync') meets: no value, a get that
\* rejects, a value JSON.parse rejects, a value whose timestamp is no date,
\* or a value with a timestamp.
Markers ==
  {[kind |-> k, timestamp |-> 0] :
      k \in {"missing", "unreadable", "garbled", "invalidDate"}}
  \cup {[kind |-> "stamped", timestamp |-> t] : t \in MarkerStamps}

\* What the dependencies answer to the checks: the fetch of /2/users/me, the
\* put and the get of the test key, the put of the snapshot, the marker.
HealthEnvs ==
  [xApi : {"ok", "notOk", "throws"},
   testPut : {"ok", "fails"},
   testGet : {"ok", "fails"},
   snapshotPut : {"ok", "fails"},
   marker : Markers]

\* nothing is stored under health-check
NoSnapshot == [stored |-> FALSE, checks |-> NoChecks, healthy |-> FALSE]

\* CACHE.get gives null: no value under the key
NoValue == <<"null">>

\* env.CACHE with neither key written
EmptyCache == [test |-> NoValue, snapshot |-> NoSnapshot]

\* handleHealthCheck has not been invoked
HealthNotInvoked ==
  /\ hpc = "idle"
  /\ healthChecks = NoChecks
  /\ executed = {}
  /\ cache = EmptyCache
  /\ healthAlerts = <<>>
  /\ healthNow = FirstCheckAt
  /\ hrun = 0
  /\ snapshots = <<>>

\* the health check is not part of the behaviour
HealthIdle ==
  /\ henv = [xApi |-> "ok", testPut |-> "ok", testGet |-> "ok",
             snapshotPut |-> "ok", marker |-> [kind |-> "missing", timestamp |-> 0]]
  /\ HealthNotInvoked

\* the health check in any environment
HealthInit ==
  /\ henv \in HealthEnvs
  /\ HealthNotInvoked

\* ------------------------------------------------------- pure functions
\* parseRateLimitHeaders: parseInt(header || '0')
parseRateLimitHeaders(h) ==
  [limit |-> IF h.limit = Absent THEN 0 ELSE h.limit,
   remaining |-> IF h.remaining = Absent THEN 0 ELSE h.remaining]

\* shouldBackoff: remaining / limit < 0.15, false when limit is 0
shouldBackoff(rateLimit) ==
  IF rateLimit.limit = 0 THEN FALSE
  ELSE 100 * rateLimit.remaining < 15 * rateLimit.limit

\* Response.ok
ResponseOk(status) == status >= 200 /\ status <= 299

\* error.message of what makeRequestWithBackoff's catch receives: the Error
\* it threw itself for a 429 or a non-ok response, or what requestFn
\* rejected with.
ErrorMessage(o) ==
  IF o.thrown
  THEN IF o.cause = "timeout" THEN StrAbortedTimeout ELSE StrFetchFailed
  ELSE IF o.status = 429 THEN StrRateLimited
       ELSE StrHTTP \o Decimal(o.status) \o StrColon \o StatusText(o.status)

\* mutant: every HTTP error status is taken for a server error
isRetryableErrorAnyHttp(message) ==
  Includes(message, StrRateLimited) \/ Includes(message, StrHTTP)
    \/ Includes(message, StrTimeout)

\* isRetryableError: substring tests on error.message
isRetryableError(message) ==
  IF Includes(message, StrRateLimited) THEN TRUE
  ELSE IF Includes(message, StrHTTP5) THEN TRUE
  ELSE IF Includes(message, StrTimeout) THEN TRUE
  ELSE FALSE

\* mutant: one retry too many
ShouldRetryOffByOne(attempt, o) ==
  attempt <= config.maxRetries /\ isRetryableError(ErrorMessage(o))

\* the condition of the retry in the catch of makeRequestWithBackoff
ShouldRetry(attempt, o) ==
  attempt < config.maxRetries /\ isRetryableError(ErrorMessage(o))

\* mutant: the first wait is half a second
backoffTimeHalved(attempt) == Min(500 * Pow2(attempt), 60000)

\* Math.min(1000 * Math.pow(2, attempt), 60000)
backoffTime(attempt) == Min(1000 * Pow2(attempt), 60000)

\* mutant: the newest request is taken (Array.prototype.pop)
pop(q) == [request |-> q[Len(q)], rest |-> SubSeq(q, 1, Len(q) - 1)]

\* Array.prototype.shift: the element taken and the array left
shift(q) == [request |-> Head(q), rest |-> Tail(q)]

\* mutant: processQueue never gets past its guard
ProcessQueueNeverStarts(processing, q) == TRUE

\* the first guard of processQueue: return without starting a loop
ProcessQueueReturnsEarly(processing, q) == processing \/ Len(q) = 0

\* mutant: the flag is not given back when the loop ends
IsProcessingLeftSet == TRUE

\* the value isProcessing gets when the while loop has ended
IsProcessingAfterLoop == FALSE

\* getStatus
getStatus ==
  [queueLength |-> Len(requestQueue), requestCount |-> requestCount,
   maxRequests |-> config.maxRequestsPerWindow, isProcessing |-> isProcessing]

\* ------------------------------------------------------- the worker loop
\* A call of requestFn at the present time: it falls inside the live window
\* when the window has not run out.
CallNow(count) ==
  IF sinceWindowStart < config.windowDurationMs THEN count + 1 ELSE count

\* mutant: every pass of the loop replaces the window
WindowOverAlways(since) == TRUE

\* now - this.windowStart >= this.config.windowDurationMs
WindowOver(since) == since >= config.windowDurationMs

\* mutant: one request more than the quota is let through
CanDispatchInclusive(count) == count <= config.maxRequestsPerWindow

\* this.requestCount < this.config.maxRequestsPerWindow
CanDispatch(count) == count < config.maxRequestsPerWindow

\* One pass of the while loop of processQueue by loop w, from the loop test
\* to its next await, with q the queue and processing the flag at that
\* point.  Shifting an item calls its closure, which calls
\* makeRequestWithBackoff(requestFn, 0), which calls requestFn: the first
\* invocation happens in the same synchronous run as the shift.
LoopIteration(w, q, processing) ==
  IF Len(q) = 0
  THEN /\ isProcessing' = IsProcessingAfterLoop
       /\ loop' = [loop EXCEPT ![w] = IdleLoop]
       /\ requestQueue' = q
       /\ UNCHANGED <<requestCount, sinceWindowStart, dispatched, sinceDispatch,
                      callsInWindow>>
  ELSE LET reset == WindowOver(sinceWindowStart)
           count == IF reset THEN 0 ELSE requestCount
           since == IF reset THEN 0 ELSE sinceWindowStart
           calls == IF reset THEN 0 ELSE callsInWindow
       IN /\ sinceWindowStart' = since
          /\ isProcessing' = processing
          /\ IF CanDispatch(count)
             THEN LET s == shift(q)
                  IN /\ requestQueue' = s.rest
                     /\ requestCount' = count + 1
                     /\ loop' = [loop EXCEPT ![w] =
                           [IdleLoop EXCEPT !.pc = "inflight",
                                            !.item = s.request, !.calls = 1]]
                     /\ dispatched' = Append(dispatched, s.request)
                     /\ sinceDispatch' = 0
                     /\ callsInWindow' = calls + 1
             ELSE /\ requestQueue' = q
                  /\ requestCount' = count
                  /\ loop' = [loop EXCEPT ![w] =
                        [IdleLoop EXCEPT !.pc = "windowWait",
                            !.timer = config.windowDurationMs - since]]
                  /\ callsInWindow' = calls
                  /\ UNCHANGED <<dispatched, sinceDispatch>>

\* makeRequest(requestFn): push the closure, call processQueue.  The call
\* starts a loop unless the guard returns early.
makeRequest(id) ==
  LET q == Append(requestQueue, id)
  IN /\ future' = [future EXCEPT ![id] = "pending"]
     /\ nextId' = nextId + 1
     /\ UNCHANGED <<config, lastSettled>>
     /\ IF ProcessQueueReturnsEarly(isProcessing, q)
        THEN /\ requestQueue' = q
             /\ UNCHANGED <<requestCount, sinceWindowStart, isProcessing, loop,
                            dispatched, sinceDispatch, callsInWindow>>
        ELSE \E w \in Loops :
               /\ loop[w].pc = "idle"
               /\ \A v \in Loops : v < w => loop[v].pc # "idle"
               /\ LoopIteration(w, q, TRUE)

\* The closure settles the promise (resolve(data) or reject(error)), then
\* processQueue continues after `await request()`: a pacing delay when
\* something is queued, else the loop test.
Settle(w, how, o, retryableOnly) ==
  LET id == loop[w].item
  IN /\ future' = [future EXCEPT ![id] = how]
     /\ lastSettled' =
           [item |-> id, how |-> how, outcome |-> o, attempt |-> loop[w].attempt,
            calls |-> loop[w].calls, backoffs |-> loop[w].backoffs,
            retryableOnly |-> retryableOnly]
     /\ IF Len(requestQueue) > 0
        THEN /\ loop' = [loop EXCEPT ![w] =
                   [IdleLoop EXCEPT !.pc = "pacing",
                                    !.timer = config.requestDelayMs]]
             /\ UNCHANGED <<requestQueue, requestCount, sinceWindowStart,
                            isProcessing, dispatched, sinceDispatch,
                            callsInWindow>>
        ELSE LoopIteration(w, requestQueue, isProcessing)

\* the catch of makeRequestWithBackoff
HandleError(w, o, retryableOnly) ==
  IF ShouldRetry(loop[w].attempt, o)
  THEN /\ loop' = [loop EXCEPT ![w] =
             [@ EXCEPT !.pc = "backoff", !.timer = backoffTime(loop[w].attempt),
                       !.err = o, !.backoffs = @ + 1,
                       !.retryableOnly = retryableOnly]]
       /\ UNCHANGED <<requestQueue, requestCount, sinceWindowStart, isProcessing,
                      future, lastSettled, dispatched, sinceDispatch,
                      callsInWindow>>
  ELSE Settle(w, "rejected", o, retryableOnly)

\* makeRequestWithBackoff after the headers were looked at: the status
AfterHeaders(w, o, retryableOnly) ==
  IF o.status = 429 \/ ~ResponseOk(o.status)
  THEN HandleError(w, o, retryableOnly)
  ELSE Settle(w, "resolved", o, retryableOnly)

\* The spec's taxonomy of an outcome (section 7): Throttled, or TransientError
\* (a timeout or a 5xx).  Only the history flag retryableOnly uses it.
ThrottledOrTransient(o) ==
  \/ ~o.thrown /\ o.status = 429
  \/ ~o.thrown /\ o.status >= 500 /\ o.status <= 599
  \/ o.thrown /\ o.cause = "timeout"

\* requestFn settles: with a Response carrying headers h, or by throwing.
Respond(w, o, h) ==
  LET retryableOnly == loop[w].retryableOnly /\ ThrottledOrTransient(o)
  IN /\ loop[w].pc = "inflight"
     /\ UNCHANGED <<config, nextId>>
     /\ IF o.thrown
        THEN HandleError(w, o, retryableOnly)
        ELSE IF shouldBackoff(parseRateLimitHeaders(h))
             THEN /\ loop' = [loop EXCEPT ![w] =
                        [@ EXCEPT !.pc = "slowdown",
                                  !.timer = config.requestDelayMs * 2,
                                  !.err = o, !.retryableOnly = retryableOnly]]
                  /\ UNCHANGED <<requestQueue, requestCount, sinceWindowStart,
                                 isProcessing, future, lastSettled, dispatched,
                                 sinceDispatch, callsInWindow>>
             ELSE AfterHeaders(w, o, retryableOnly)

\* the delay of 2 * requestDelayMs is over
SlowdownElapsed(w) ==
  /\ loop[w].pc = "slowdown"
  /\ loop[w].timer = 0
  /\ UNCHANGED <<config, nextId>>
  /\ AfterHeaders(w, loop[w].err, loop[w].retryableOnly)

\* the backoff delay is over: makeRequestWithBackoff(requestFn, attempt + 1)
BackoffElapsed(w) ==
  /\ loop[w].pc = "backoff"
  /\ loop[w].timer = 0
  /\ loop' = [loop EXCEPT ![w] =
        [@ EXCEPT !.pc = "inflight", !.attempt = @ + 1, !.err = NoOutcome,
                  !.calls = @ + 1]]
  /\ callsInWindow' = CallNow(callsInWindow)
  /\ UNCHANGED <<config, requestQueue, requestCount, sinceWindowStart,
                 isProcessing, future, lastSettled, nextId, dispatched,
                 sinceDispatch>>

\* the pacing delay is over: back to the loop test
PacingElapsed(w) ==
  /\ loop[w].pc = "pacing"
  /\ loop[w].timer = 0
  /\ LoopIteration(w, requestQueue, isProcessing)
  /\ UNCHANGED <<config, future, lastSettled, nextId>>

\* the wait for the window is over: back to the loop test
WindowWaitElapsed(w) ==
  /\ loop[w].pc = "windowWait"
  /\ loop[w].timer = 0
  /\ LoopIteration(w, requestQueue, isProcessing)
  /\ UNCHANGED <<config, future, lastSettled, nextId>>

\* mutant: clearQueue also drops what the loops hold
clearQueueAborting ==
  /\ requestQueue' = <<>>
  /\ isProcessing' = FALSE
  /\ loop' = [w \in Loops |-> IdleLoop]
  /\ UNCHANGED <<config, requestCount, sinceWindowStart, future,
                 lastSettled, nextId, dispatched, sinceDispatch, callsInWindow>>

clearQueue ==
  /\ requestQueue' = <<>>
  /\ isProcessing' = FALSE
  /\ UNCHANGED <<config, requestCount, sinceWindowStart, loop, future,
                 lastSettled, nextId, dispatched, sinceDispatch, callsInWindow>>

\* TickMs milliseconds pass.
Clock ==
  /\ sinceWindowStart' = Min(sinceWindowStart + TickMs, config.windowDurationMs)
  /\ loop' = [w \in Loops |->
        [loop[w] EXCEPT !.timer = IF @ > TickMs THEN @ - TickMs ELSE 0]]
  /\ sinceDispatch' = IF dispatched = <<>> THEN sinceDispatch
                      ELSE Min(sinceDispatch + TickMs, config.requestDelayMs)
  /\ UNCHANGED <<config, requestQueue, requestCount, isProcessing, future,
                 lastSettled, nextId, dispatched, callsInWindow>>

\* ------------------------------------------------- the limiter on its own
\* Any caller may call makeRequest and clearQueue at any time.
Enqueue ==
  /\ nextId <= MaxItems
  /\ makeRequest(nextId)
  /\ UNCHANGED <<runVars, overlapVars, healthVars, triggerVars>>

RequestSettles ==
  /\ \E w \in Loops, o \in Outcomes, h \in HeaderSets : Respond(w, o, h)
  /\ UNCHANGED <<runVars, overlapVars, healthVars, triggerVars>>

SlowdownOver ==
  /\ \E w \in Loops : SlowdownElapsed(w)
  /\ UNCHANGED <<runVars, overlapVars, healthVars, triggerVars>>

BackoffOver ==
  /\ \E w \in Loops : BackoffElapsed(w)
  /\ UNCHANGED <<runVars, overlapVars, healthVars, triggerVars>>

PacingOver ==
  /\ \E w \in Loops : PacingElapsed(w)
  /\ UNCHANGED <<runVars, overlapVars, healthVars, triggerVars>>

WindowWaitOver ==
  /\ \E w \in Loops : WindowWaitElapsed(w)
  /\ UNCHANGED <<runVars, overlapVars, healthVars, triggerVars>>

ClearQueue ==
  /\ clearQueue
  /\ UNCHANGED <<runVars, overlapVars, healthVars, triggerVars>>

Tick ==
  /\ Clock
  /\ UNCHANGED <<runVars, overlapVars, healthVars, triggerVars>>

Init ==
  /\ OverlapInit
  /\ HealthIdle
  /\ LimiterInit
  /\ TriggerIdle
  /\ config \in Configs
  /\ RunInit

Next ==
  \/ Enqueue
  \/ RequestSettles
  \/ SlowdownOver
  \/ BackoffOver
  \/ PacingOver
  \/ WindowWaitOver
  \/ ClearQueue
  \/ Tick

Spec == Init /\ [][Next]_vars

\* ------------------------------------- the limiter when nobody clears it
DrainInit ==
  /\ OverlapInit
  /\ HealthIdle
  /\ LimiterInit
  /\ TriggerIdle
  /\ config \in DrainConfigs
  /\ RunInit

DrainNext ==
  \/ Enqueue
  \/ RequestSettles
  \/ SlowdownOver
  \/ BackoffOver
  \/ PacingOver
  \/ WindowWaitOver
  \/ Tick

\* Every invocation of the unit of work returns, every timer fires, the
\* clock advances.
DrainSpec ==
  /\ DrainInit
  /\ [][DrainNext]_vars
  /\ WF_vars(RequestSettles)
  /\ WF_vars(SlowdownOver)
  /\ WF_vars(BackoffOver)
  /\ WF_vars(PacingOver)
  /\ WF_vars(WindowWaitOver)
  /\ WF_vars(Tick)

\* ------------------------------------------------------ handleDailyXSync
\* mutant: a failed account is not counted as processed
FoldFailureNotProcessed(p, username, o) ==
  [p EXCEPT !.failedAccounts = @ + 1,
            !.errors = Append(@, [username |-> username, message |-> ErrorMessage(o)])]

\* the catch inside the for loop; the entry is `${account.username}: ${error.message}`
FoldFailure(p, username, o) ==
  [p EXCEPT !.processedAccounts = @ + 1,
            !.failedAccounts = @ + 1,
            !.errors = Append(@, [username |-> username, message |-> ErrorMessage(o)])]

\* the try inside the for loop, after syncAccountData returned
FoldSuccess(p, tweetsProcessed) ==
  [p EXCEPT !.processedAccounts = @ + 1,
            !.successfulAccounts = @ + 1,
            !.totalTweets = @ + tweetsProcessed]

\* tweets.data.length of a response body (0 when there is no data)
TweetCounts == {0, 2}

\* syncResult (timestamp and duration left out); it has no error field
SyncResult(p) == [id |-> SyncId, error |-> NoError] @@ p

\* mutant: the catch records no message
ErrorResultNoMessage(message) ==
  [id |-> SyncId, error |-> message] @@ NewProgress(0)

\* errorResult of the outer catch
ErrorResult(message) ==
  [id |-> SyncId, error |-> message] @@
  [NewProgress(0) EXCEPT !.errors = <<message>>]

\* mutant: the comparison is not strict
HighFailureRateInclusive(p) == 5 * p.failedAccounts >= p.totalAccounts

\* failedAccounts > totalAccounts * 0.2.  The double nearest to 0.2 is a
\* little above 1/5, and n * 0.2 rounds to n / 5 when 5 divides n (so the
\* comparison is strict there) and stays away from every integer by at least
\* 0.2 otherwise: on integers the test is 5 * failedAccounts > totalAccounts.
HighFailureRate(p) == 5 * p.failedAccounts > p.totalAccounts

AlertHighFailure == "High failure rate in daily sync"
AlertFailed == "Daily sync completely failed"

\* handleDailyXSync is called: startTime, syncId, createRateLimiter(env),
\* then the await of getConnectedXAccounts.
RunStart ==
  /\ UNCHANGED <<overlapVars, healthVars, triggerVars>>
  /\ runPc = "idle"
  /\ runPc' = "listing"
  /\ UNCHANGED <<syncProgress, account, awaited, caught, signaled, syncState,
                 writes, alerts>>
  /\ UNCHANGED limiterVars

\* getConnectedXAccounts settles: it throws, or returns n accounts (the
\* accounts are 1..n).  With no account the run returns; else the loop
\* starts and syncAccountData calls makeRequest for the first account.
RunListed ==
  /\ UNCHANGED <<overlapVars, healthVars, triggerVars>>
  /\ runPc = "listing"
  /\ \/ /\ runPc' = "catchSave"
        /\ caught' = "getConnectedXAccounts"
        /\ UNCHANGED <<syncProgress, account, awaited, signaled, syncState,
                       writes, alerts>>
        /\ UNCHANGED limiterVars
     \/ \E n \in 0..MaxItems :
          IF n = 0
          THEN /\ runPc' = "returned"
               /\ UNCHANGED <<syncProgress, account, awaited, caught, signaled,
                              syncState, writes, alerts>>
               /\ UNCHANGED limiterVars
          ELSE /\ runPc' = "awaitAccount"
               /\ syncProgress' = NewProgress(n)
               /\ account' = 1
               /\ awaited' = nextId
               /\ makeRequest(nextId)
               /\ UNCHANGED <<caught, signaled, syncState, writes, alerts>>

\* the k-th element of connectedAccounts: its id and its username are
\* different strings (userId is not used by the run)
ConnectedAccount(k) == [id |-> <<"x_account", k>>, username |-> <<"user", k>>]

\* mutant: once a first promise has settled, the loop goes on without
\* awaiting syncAccountData
SyncAccountDataNotAwaited ==
  lastSettled.how # "none" \/ future[awaited] \in {"resolved", "rejected"}

\* `await syncAccountData(...)`, which awaits the promise of makeRequest
SyncAccountDataSettled == future[awaited] \in {"resolved", "rejected"}

\* The promise of the account's makeRequest has settled: the result is
\* folded into syncProgress, then the next account is started or, after the
\* last one, saveSyncResult(syncResult) is called.
RunAccountSettled ==
  /\ UNCHANGED <<overlapVars, healthVars, triggerVars>>
  /\ runPc = "awaitAccount"
  /\ SyncAccountDataSettled
  /\ \E t \in TweetCounts :
        syncProgress' =
          IF future[awaited] = "resolved"
          THEN FoldSuccess(syncProgress, t)
          ELSE FoldFailure(syncProgress, ConnectedAccount(account).username,
                           lastSettled.outcome)
  /\ IF account < syncProgress.totalAccounts
     THEN /\ account' = account + 1
          /\ awaited' = nextId
          /\ makeRequest(nextId)
          /\ UNCHANGED runPc
     ELSE /\ runPc' = "save"
          /\ UNCHANGED <<account, awaited>>
          /\ UNCHANGED limiterVars
  /\ UNCHANGED <<caught, signaled, syncState, writes, alerts>>

\* The put of saveSyncResult settles, then ANALYTICS.writeDataPoint is
\* called, then the failure rate is looked at.  Either call can throw into
\* the outer catch, which calls saveSyncResult(errorResult).
RunSaved ==
  /\ UNCHANGED <<overlapVars, healthVars, triggerVars>>
  /\ runPc = "save"
  /\ \E putOk \in BOOLEAN, analyticsOk \in BOOLEAN :
        IF ~putOk
        THEN /\ runPc' = "catchSave"
             /\ caught' = "SYNC_STATE.put"
             /\ UNCHANGED <<syncState, writes, alerts>>
        ELSE /\ syncState' = SyncResult(syncProgress)
             /\ writes' = writes + 1
             /\ IF ~analyticsOk
                THEN /\ runPc' = "catchSave"
                     /\ caught' = "ANALYTICS.writeDataPoint"
                     /\ UNCHANGED alerts
                ELSE /\ runPc' = "returned"
                     /\ alerts' = IF HighFailureRate(syncProgress)
                                  THEN Append(alerts, AlertHighFailure)
                                  ELSE alerts
                     /\ UNCHANGED caught
  /\ UNCHANGED <<syncProgress, account, awaited, signaled>>
  /\ UNCHANGED limiterVars

\* the rejection of the put inside saveSyncResult(errorResult)
CatchPutFailed == "SYNC_STATE.put of errorResult"

\* The put of the outer catch settles: the alert and `throw error` follow
\* it, or its own rejection leaves the handler in place of the error caught.
RunCatchSaved ==
  /\ UNCHANGED <<overlapVars, healthVars, triggerVars>>
  /\ runPc = "catchSave"
  /\ runPc' = "thrown"
  /\ \E putOk \in BOOLEAN :
        IF putOk
        THEN /\ syncState' = ErrorResult(caught)
             /\ writes' = writes + 1
             /\ alerts' = Append(alerts, AlertFailed)
             /\ signaled' = caught
        ELSE /\ signaled' = CatchPutFailed
             /\ UNCHANGED <<syncState, writes, alerts>>
  /\ UNCHANGED <<syncProgress, account, awaited, caught>>
  /\ UNCHANGED limiterVars

\* One run with the limiter it created; nobody else touches that limiter.
\* createRateLimiter builds the configuration from the environment and the
\* defaults (200 requests, 15 minutes, 4500 ms, 3 retries); the run is
\* checked with the small configurations, which keep the same order of
\* magnitude between the delays and the window.
SyncInit ==
  /\ OverlapInit
  /\ HealthIdle
  /\ LimiterInit
  /\ TriggerIdle
  /\ config \in DrainConfigs
  /\ RunInit

SyncNext ==
  \/ RunStart
  \/ RunListed
  \/ RunAccountSettled
  \/ RunSaved
  \/ RunCatchSaved
  \/ RequestSettles
  \/ SlowdownOver
  \/ BackoffOver
  \/ WindowWaitOver
  \/ Tick

SyncSpec == SyncInit /\ [][SyncNext]_vars

\* ------------------------------------------- handleDailyXSync after the loop
\* syncProgress after the for loop went over accounts k..n, of which the
\* accounts up to f were rejected with a 404 and the others had no tweets
RECURSIVE LoopOver(_, _, _, _)
LoopOver(p, k, n, f) ==
  IF k > n THEN p
  ELSE LoopOver(IF k <= f
                THEN FoldFailure(p, ConnectedAccount(k).username,
                                 [thrown |-> FALSE, status |-> 404, cause |-> "none"])
                ELSE FoldSuccess(p, 0),
                k + 1, n, f)

\* A run over up to MaxAccounts accounts at the end of its loop, about to
\* call saveSyncResult.  The limiter is not used after the loop: its
\* variables are held as constructed.
AfterLoopInit ==
  /\ OverlapInit
  /\ HealthIdle
  /\ LimiterInit
  /\ TriggerIdle
  /\ config \in Configs
  /\ runPc = "save"
  /\ \E n \in 1..MaxAccounts : \E f \in 0..n :
        /\ syncProgress = LoopOver(NewProgress(n), 1, n, f)
        /\ account = n
  /\ awaited = 0
  /\ caught = NoError
  /\ signaled = NoError
  /\ syncState = NoRecord
  /\ writes = 0
  /\ alerts = <<>>

AfterLoopNext ==
  \/ RunSaved
  \/ RunCatchSaved

AfterLoopSpec == AfterLoopInit /\ [][AfterLoopNext]_vars

\* ------------------------------- invocations of handleDailyXSync that overlap
\* These invocations share env.SYNC_STATE and nothing else (each creates its
\* own limiter).  What an invocation does between its first line and its
\* saveSyncResult is in SyncSpec; here each one has accounts and reaches one
\* saveSyncResult, and only its syncId and its put are followed.

\* saveSyncResult: SYNC_STATE.put(`sync-result-${result.id}`, ...) replaces
\* whatever the key holds
PutSyncResult(store, id, r) ==
  [store EXCEPT ![SyncResultKey(id)] = [run |-> r]]

\* handleDailyXSync is invoked by handleScheduled or by POST /sync/trigger:
\* startTime and syncId are taken from Date.now().
InvokeRun ==
  /\ \E r \in Invocations :
        /\ invocation[r].pc = "idle"
        /\ invocation' = [invocation EXCEPT ![r] =
                            [pc |-> "running", syncId |-> SyncIdAt(nowMs)]]
  /\ UNCHANGED <<nowMs, syncResults>>
  /\ UNCHANGED <<limiterVars, runVars, healthVars, triggerVars>>

\* The invocation stores its result (syncResult, or errorResult in the catch).
RunPersists ==
  /\ \E r \in Invocations :
        /\ invocation[r].pc = "running"
        /\ invocation' = [invocation EXCEPT ![r].pc = "done"]
        /\ syncResults' = PutSyncResult(syncResults, invocation[r].syncId, r)
  /\ UNCHANGED nowMs
  /\ UNCHANGED <<limiterVars, runVars, healthVars, triggerVars>>

\* a millisecond passes
Millisecond ==
  /\ nowMs < MaxClock
  /\ nowMs' = nowMs + 1
  /\ UNCHANGED <<invocation, syncResults>>
  /\ UNCHANGED <<limiterVars, runVars, healthVars, triggerVars>>

OverlapSpecInit ==
  /\ OverlapInit
  /\ HealthIdle
  /\ LimiterInit
  /\ TriggerIdle
  /\ config \in Configs
  /\ RunInit

OverlapNext ==
  \/ InvokeRun
  \/ RunPersists
  \/ Millisecond

OverlapSpec == OverlapSpecInit /\ [][OverlapNext]_vars

\* ------------------------------------------------------ handleHealthCheck
\* A check gives [threw, value]: value is what it returns, threw says that
\* an exception left it (each check catches inside, so none does).

\* checkDatabaseHealth: the placeholder returns true
checkDatabaseHealth == [threw |-> FALSE, value |-> TRUE]

\* mutant: a fetch that throws leaves the check
checkXAPIHealthPropagates(answer) ==
  [threw |-> answer = "throws", value |-> answer = "ok"]

\* checkXAPIHealth: response.ok, and false from the catch when fetch throws
checkXAPIHealth(answer) == [threw |-> FALSE, value |-> answer = "ok"]

\* Date.now().toString()
TestValue(now) == Decimal(now)

\* mutant: the put leaves a key alone that already has a value
CachePutIfAbsent(c, value) ==
  IF c.test = NoValue THEN [c EXCEPT !.test = value] ELSE c

\* CACHE.put('health-check-test', testValue, ...) replaces the value (the
\* 60 s expiry only removes a value the next check replaces anyway)
CachePut(c, value) == [c EXCEPT !.test = value]

\* checkCacheHealth when the put rejects: false from the catch
checkCacheHealthPutFailed == [threw |-> FALSE, value |-> FALSE]

\* checkCacheHealth after the get settled: retrieved === testValue, and false
\* from the catch when the get rejects
checkCacheHealth(answer, c, testValue) ==
  [threw |-> FALSE, value |-> answer = "ok" /\ c.test = testValue]

\* mutant: an age of exactly 25 hours is still fresh
checkLastSyncHealthInclusive(marker, now) ==
  [threw |-> FALSE,
   value |-> marker.kind = "stamped" /\ now - marker.timestamp <= 25 * HourMs]

\* checkLastSyncHealth: false without a value, false from the catch when the
\* get or JSON.parse throws, false when the timestamp is no date (NaN < 25),
\* else (now - lastSyncTime) / (1000 * 60 * 60) < 25.  The division by
\* 3600000 is exact at 25 hours and monotone, so the test is taken on the
\* milliseconds.
checkLastSyncHealth(marker, now) ==
  [threw |-> FALSE,
   value |-> marker.kind = "stamped" /\ now - marker.timestamp < 25 * HourMs]

\* Object.values(healthChecks).every(check => check)
AllHealthy(checks) == \A n \in CheckNames : checks[n]

AlertHealthFailed == "Health check failed"
AlertHealthError == "Health check error"

\* the time between two invocations: a millisecond, or the six hours of the
\* schedule
Gaps == {1, 6 * HourMs}

\* `healthChecks.name = await check(env)`: the result r is stored and the
\* handler goes on to the next check, or r left the check as an exception
\* and the catch of the handler runs: sendHealthAlert, which only logs.
Record(name, r, nextPc) ==
  IF r.threw
  THEN /\ healthAlerts' = Append(healthAlerts, AlertHealthError)
       /\ hpc' = "done"
       /\ UNCHANGED <<healthChecks, executed>>
  ELSE /\ healthChecks' = [healthChecks EXCEPT ![name] = r.value]
       /\ executed' = executed \cup {name}
       /\ hpc' = nextPc
       /\ UNCHANGED healthAlerts

\* handleHealthCheck is invoked (after the first time: some time later)
HealthStart ==
  /\ hpc \in {"idle", "done"}
  /\ hrun < MaxChecks
  /\ hrun' = hrun + 1
  /\ \E d \in Gaps : healthNow' = IF hrun = 0 THEN healthNow ELSE healthNow + d
  /\ hpc' = "database"
  /\ healthChecks' = NoChecks
  /\ executed' = {}
  /\ healthAlerts' = <<>>
  /\ UNCHANGED <<henv, cache, snapshots>>
  /\ UNCHANGED <<limiterVars, runVars, overlapVars, triggerVars>>

\* checkDatabaseHealth settles, checkXAPIHealth calls fetch
DatabaseChecked ==
  /\ hpc = "database"
  /\ Record("database", checkDatabaseHealth, "xApi")
  /\ UNCHANGED <<henv, cache, healthNow, hrun, snapshots>>
  /\ UNCHANGED <<limiterVars, runVars, overlapVars, triggerVars>>

\* the fetch of checkXAPIHealth settles, checkCacheHealth calls CACHE.put
XApiChecked ==
  /\ hpc = "xApi"
  /\ Record("xApi", checkXAPIHealth(henv.xApi), "cachePut")
  /\ UNCHANGED <<henv, cache, healthNow, hrun, snapshots>>
  /\ UNCHANGED <<limiterVars, runVars, overlapVars, triggerVars>>

\* the put of checkCacheHealth settles: the get is called, or the check is
\* over and checkLastSyncHealth calls SYNC_STATE.get
CachePutSettles ==
  /\ hpc = "cachePut"
  /\ IF henv.testPut = "ok"
     THEN /\ cache' = CachePut(cache, TestValue(healthNow))
          /\ hpc' = "cacheGet"
          /\ UNCHANGED <<healthChecks, executed, healthAlerts>>
     ELSE /\ Record("cache", checkCacheHealthPutFailed, "lastSync")
          /\ UNCHANGED cache
  /\ UNCHANGED <<henv, healthNow, hrun, snapshots>>
  /\ UNCHANGED <<limiterVars, runVars, overlapVars, triggerVars>>

\* the get of checkCacheHealth settles, checkLastSyncHealth calls
\* SYNC_STATE.get
CacheGetSettles ==
  /\ hpc = "cacheGet"
  /\ Record("cache",
            checkCacheHealth(henv.testGet, cache, TestValue(healthNow)),
            "lastSync")
  /\ UNCHANGED <<henv, cache, healthNow, hrun, snapshots>>
  /\ UNCHANGED <<limiterVars, runVars, overlapVars, triggerVars>>

\* The get of checkLastSyncHealth settles: allHealthy is computed, the
\* alert is sent when it is false, and CACHE.put('health-check', ...) is
\* called.
LastSyncChecked ==
  /\ hpc = "lastSync"
  /\ LET r == checkLastSyncHealth(henv.marker, healthNow)
         checks == [healthChecks EXCEPT !.lastSync = r.value]
     IN IF r.threw
        THEN /\ Record("lastSync", r, "snapshotPut")
             /\ UNCHANGED snapshots
        ELSE /\ healthChecks' = checks
             /\ executed' = executed \cup {"lastSync"}
             /\ snapshots' = Append(snapshots,
                                    [checks |-> checks,
                                     healthy |-> AllHealthy(checks),
                                     at |-> healthNow])
             /\ healthAlerts' = IF AllHealthy(checks)
                                THEN healthAlerts
                                ELSE Append(healthAlerts, AlertHealthFailed)
             /\ hpc' = "snapshotPut"
  /\ UNCHANGED <<henv, cache, healthNow, hrun>>
  /\ UNCHANGED <<limiterVars, runVars, overlapVars, triggerVars>>

\* The put of the snapshot settles: the handler returns, or the put rejected
\* and the catch sends its own alert; either way the promise of
\* handleHealthCheck resolves.
SnapshotPutSettles ==
  /\ hpc = "snapshotPut"
  /\ hpc' = "done"
  /\ IF henv.snapshotPut = "ok"
     THEN /\ cache' = [cache EXCEPT !.snapshot =
                         [stored |-> TRUE, checks |-> healthChecks,
                          healthy |-> AllHealthy(healthChecks)]]
          /\ UNCHANGED healthAlerts
     ELSE /\ healthAlerts' = Append(healthAlerts, AlertHealthError)
          /\ UNCHANGED cache
  /\ UNCHANGED <<henv, healthChecks, executed, healthNow, hrun, snapshots>>
  /\ UNCHANGED <<limiterVars, runVars, overlapVars, triggerVars>>

HealthSpecInit ==
  /\ OverlapInit
  /\ HealthInit
  /\ LimiterInit
  /\ TriggerIdle
  /\ config \in Configs
  /\ RunInit

HealthNext ==
  \/ HealthStart
  \/ DatabaseChecked
  \/ XApiChecked
  \/ CachePutSettles
  \/ CacheGetSettles
  \/ LastSyncChecked
  \/ SnapshotPutSettles

HealthSpec == HealthSpecInit /\ [][HealthNext]_vars

\* ------------------------------------- handleScheduled and POST /sync/trigger
\* The worker's two ways into handleDailyXSync.  One run is followed at a
\* time: a new one is started when the one before has returned or thrown,
\* and it builds its own limiter.  The clock stands still here: a run goes
\* on while its requests are answered without a wait of the limiter, and
\* stays where it is otherwise (the waits are followed in SyncSpec).

\* handleDailyXSync(env) is called: the run's locals and createRateLimiter
\* are new, env.SYNC_STATE is the one the runs before wrote to
handleDailyXSyncCalled ==
  /\ runPc \in {"idle", "returned", "thrown"}
  /\ runPc' = "listing"
  /\ syncProgress' = NewProgress(0)
  /\ account' = 0
  /\ awaited' = 0
  /\ caught' = NoError
  /\ signaled' = NoError
  /\ UNCHANGED <<syncState, writes, alerts>>
  /\ requestQueue' = <<>>
  /\ requestCount' = 0
  /\ sinceWindowStart' = 0
  /\ isProcessing' = FALSE
  /\ loop' = [w \in Loops |-> IdleLoop]
  /\ future' = [i \in ItemIds |-> "unused"]
  /\ nextId' = 1
  /\ lastSettled' = NothingSettled
  /\ dispatched' = <<>>
  /\ sinceDispatch' = 0
  /\ callsInWindow' = 0
  /\ UNCHANGED config

\* mutant: the trigger is open in every environment
ManualSyncRefusedNever(e) == FALSE

\* env.ENVIRONMENT === 'production'
ManualSyncRefused(e) == e = "production"

\* mutant: a run that threw is taken for one that returned
RunReturnedOrThrew == runPc \in {"returned", "thrown"}

\* `await handleDailyXSync(env)` gives control to the next statement
RunReturned == runPc = "returned"

\* JSON.stringify({timestamp, cron: event.cron}); the timestamp is not
\* followed
DailyMarker == [cron |-> DailyCron]

\* handleScheduled with event.cron = '30 2 * * *' up to its first await
ScheduledDaily ==
  /\ schedPc = "idle"
  /\ handleDailyXSyncCalled
  /\ schedPc' = "awaitRun"
  /\ startedBy' = "cron"
  /\ UNCHANGED <<environment, responses, manualRuns, lastSuccessfulSync, markerWrites,
                 fired>>
  /\ UNCHANGED <<overlapVars, healthVars>>

\* The promise of handleDailyXSync settles.  Fulfilled: the marker is put,
\* and the handler resolves, or rejects with the put's error from its catch.
\* Rejected: the catch logs and rethrows, the put is skipped.
ScheduledRunOver ==
  /\ schedPc = "awaitRun"
  /\ runPc \in {"returned", "thrown"}
  /\ IF RunReturned
     THEN \E putOk \in BOOLEAN :
            IF putOk
            THEN /\ lastSuccessfulSync' = DailyMarker
                 /\ markerWrites' = markerWrites + 1
                 /\ schedPc' = "done"
            ELSE /\ schedPc' = "putRejected"
                 /\ UNCHANGED <<lastSuccessfulSync, markerWrites>>
     ELSE /\ schedPc' = "rethrown"
          /\ UNCHANGED <<lastSuccessfulSync, markerWrites>>
  /\ UNCHANGED <<environment, startedBy, responses, manualRuns, fired>>
  /\ UNCHANGED <<limiterVars, runVars, overlapVars, healthVars>>

\* handleScheduled with another cron expression: handleHealthCheck (which
\* only reads last-successful-sync), handleMonthlyCleanup (which touches no
\* store) or the warning of the default branch
ScheduledOther ==
  /\ \E c \in OtherCrons \ fired : fired' = fired \cup {c}
  /\ UNCHANGED <<environment, schedPc, startedBy, responses, manualRuns,
                 lastSuccessfulSync, markerWrites>>
  /\ UNCHANGED <<limiterVars, runVars, overlapVars, healthVars>>

\* POST /sync/trigger: refused with 403, or handleDailyXSync is called,
\* handed to waitUntil and the request is answered at once
ManualTrigger ==
  /\ Len(responses) < MaxRequests
  /\ IF ManualSyncRefused(environment)
     THEN /\ responses' = Append(responses, StatusForbidden)
          /\ UNCHANGED <<startedBy, manualRuns>>
          /\ UNCHANGED <<limiterVars, runVars>>
     ELSE /\ schedPc # "awaitRun"
          /\ handleDailyXSyncCalled
          /\ responses' = Append(responses, StatusOk)
          /\ startedBy' = "manual"
          /\ manualRuns' = manualRuns + 1
  /\ UNCHANGED <<environment, schedPc, lastSuccessfulSync, markerWrites, fired>>
  /\ UNCHANGED <<overlapVars, healthVars>>

TriggerInit ==
  /\ OverlapInit
  /\ HealthIdle
  /\ LimiterInit
  /\ config \in Configs
  /\ RunInit
  /\ environment \in Environments
  /\ TriggerNotInvoked

TriggerNext ==
  \/ ScheduledDaily
  \/ ScheduledRunOver
  \/ ScheduledOther
  \/ ManualTrigger
  \/ RunListed
  \/ RunAccountSettled
  \/ RunSaved
  \/ RunCatchSaved
  \/ RequestSettles

TriggerSpec == TriggerInit /\ [][TriggerNext]_vars

\* ------------------------------------------------------------ the claims
Settled == {"resolved", "rejected"}
Queued(i) == \E k \in 1..Len(requestQueue) : requestQueue[k] = i
Holding(w) == loop[w].pc \in {"inflight", "slowdown", "backoff"}

\* C1: in every window the calls of the external API, retries counted, never
\* exceed maxRequestsPerWindow.
C1_CallsWithinQuota == callsInWindow <= config.maxRequestsPerWindow

\* C2: clearQueue() rejects the future of every item that is queued and not
\* yet dispatched; none of them stays unsettled.
C2_ClearQueueRejectsPending ==
  [][ClearQueue => \A i \in ItemIds : Queued(i) => future'[i] = "rejected"]_vars

\* C3: admission is FIFO: items are first invoked in the order in which they
\* were enqueued (ids are given in enqueue order), no item overtakes an
\* earlier one.
C3_FifoAdmission ==
  \A j, k \in 1..Len(dispatched) : j < k => dispatched[j] < dispatched[k]

\* Item 2 has just been shifted (the window was replaced in the same run)
\* while item 3, enqueued before that, is still queued behind it.
C3_Witness ==
  /\ dispatched = <<1, 2>> /\ requestQueue = <<3>>
  /\ sinceWindowStart = 0 /\ requestCount = 1
  /\ \E w \in Loops : loop[w].pc = "inflight" /\ loop[w].item = 2

\* C4: when clearQueue() is never called, every future returned by
\* makeRequest eventually settles.
C4_EveryFutureSettles ==
  \A i \in ItemIds : (future[i] = "pending") ~> (future[i] \in Settled)

\* Every request of the run was made and settled, one of them after the
\* queue had gone idle, one of them rejected after its retries.
C4_Witness ==
  /\ \A i \in ItemIds : future[i] \in Settled
  /\ ~isProcessing
  /\ lastSettled.how = "rejected" /\ lastSettled.backoffs = config.maxRetries

\* C5: a unit of work whose every invocation is throttled or fails
\* transiently is invoked exactly maxRetries + 1 times and its future is then
\* rejected; a settled item is invoked no further (no loop holds it).
C5_RetryExhaustion ==
  /\ (lastSettled.how # "none" /\ lastSettled.retryableOnly) =>
        /\ lastSettled.how = "rejected"
        /\ lastSettled.calls = config.maxRetries + 1
  /\ \A w \in Loops : Holding(w) => future[loop[w].item] = "pending"
  /\ \A w \in Loops : loop[w].calls <= config.maxRetries + 1

C5_Witness ==
  /\ lastSettled.how = "rejected" /\ lastSettled.retryableOnly
  /\ lastSettled.calls = config.maxRetries + 1

\* C6: throttled (429), server error (5xx), network failure (the call throws)
\* and timeout are all retryable: with attempt < maxRetries the future is not
\* rejected with such an error.
RetryableKind(o) ==
  \/ ~o.thrown /\ o.status = 429
  \/ ~o.thrown /\ o.status >= 500 /\ o.status <= 599
  \/ o.thrown /\ o.cause \in {"network", "timeout"}

C6_AllTransientKindsRetried ==
  (lastSettled.how = "rejected" /\ RetryableKind(lastSettled.outcome)) =>
     lastSettled.attempt >= config.maxRetries

\* C7: a permanent failure (a non-success response that is neither a 429 nor
\* a 5xx) is never retried: no backoff wait is started for it, the future is
\* rejected with that error, and the item was called once more than it was
\* retried.
PermanentFailure(o) ==
  /\ ~o.thrown /\ o.status # 0
  /\ ~ResponseOk(o.status) /\ o.status # 429
  /\ ~(o.status >= 500 /\ o.status <= 599)

C7_PermanentNotRetried ==
  /\ \A w \in Loops : loop[w].pc = "backoff" => ~PermanentFailure(loop[w].err)
  /\ \A w \in Loops : Holding(w) => loop[w].calls = loop[w].backoffs + 1
                                         - (IF loop[w].pc = "backoff" THEN 1 ELSE 0)
  /\ lastSettled.how # "none" => lastSettled.calls = lastSettled.backoffs + 1
  /\ (lastSettled.how = "resolved") = (lastSettled.how # "none" /\ ResponseOk(lastSettled.outcome.status))

C7_Witness ==
  /\ lastSettled.how = "rejected" /\ PermanentFailure(lastSettled.outcome)
  /\ lastSettled.calls = 1

\* the accounts of the run whose fetch failed
FailedFetches ==
  {i \in 1..syncProgress.totalAccounts : future[i] = "rejected"}

Counts(r) ==
  <<r.totalAccounts, r.processedAccounts, r.successfulAccounts,
    r.failedAccounts, Len(r.errors)>>

\* C8: bulkhead.  With n >= 1 accounts of which f fail, every account is
\* processed, processedAccounts = successfulAccounts + failedAccounts all
\* through the loop, after the loop the counts are n, n, n - f, f with f
\* errors, a run that returns has stored them, and no account failure ever
\* reaches the outer catch (only the listing, the store or the analytics
\* binding do).
C8_Bulkhead ==
  LET p == syncProgress
      n == p.totalAccounts
      f == Cardinality(FailedFetches)
  IN /\ p.processedAccounts = p.successfulAccounts + p.failedAccounts
     /\ runPc = "awaitAccount" => p.processedAccounts = account - 1
     /\ (runPc \in {"save", "catchSave", "returned", "thrown"} /\ n >= 1) =>
           Counts(p) = <<n, n, n - f, f, f>>
     /\ (runPc = "returned" /\ n >= 1) =>
           /\ syncState.id = SyncId
           /\ Counts(syncState) = <<n, n, n - f, f, f>>
     /\ runPc \in {"catchSave", "thrown"} =>
           caught \in {"getConnectedXAccounts", "SYNC_STATE.put",
                       "ANALYTICS.writeDataPoint"}

\* A run over several accounts returned with a failed account that was
\* followed by a successful one.
C8_Witness ==
  /\ runPc = "returned"
  /\ syncProgress.totalAccounts >= 2
  /\ future[1] = "rejected" /\ future[2] = "resolved"
  /\ syncState.failedAccounts = 1

\* C9: a run writes its key sync-result-{syncId} at most once, whatever
\* fails after the loop.
C9_PersistedOnce == writes <= 1

\* C10: a run that finds no connected account returns without an error and
\* leaves an all-zero SyncRun with no errors under sync-result-{syncId}.
C10_EmptyRunPersisted ==
  (runPc = "returned" /\ syncProgress.totalAccounts = 0) =>
     /\ syncState.id = SyncId
     /\ Counts(syncState) = <<0, 0, 0, 0, 0>>

\* C11: when listing the connected accounts throws (and the store takes the
\* put of the catch), the run stores exactly one record, with all counts 0
\* and errors = [message], raises the "completely failed" alert exactly
\* once, makes no call through the limiter, and rejects with the error it
\* caught.
C11_CatastrophicListing ==
  caught = "getConnectedXAccounts" =>
     /\ nextId = 1 /\ dispatched = <<>> /\ callsInWindow = 0
     /\ \A i \in ItemIds : future[i] = "unused"
     /\ (runPc = "thrown" /\ signaled # CatchPutFailed) =>
           /\ writes = 1
           /\ syncState.id = SyncId
           /\ Counts(syncState) = <<0, 0, 0, 0, 1>>
           /\ syncState.errors = <<caught>>
           /\ syncState.error = caught
           /\ alerts = <<AlertFailed>>
           /\ signaled = caught

C11_Witness ==
  /\ runPc = "thrown" /\ caught = "getConnectedXAccounts"
  /\ signaled = "getConnectedXAccounts"
  /\ writes = 1 /\ alerts = <<AlertFailed>>

\* C12: whenever the run rejects, the put of the store failing included, the
\* "completely failed" alert has been raised before.
C12_AlertBeforeResignal ==
  runPc = "thrown" => \E k \in 1..Len(alerts) : alerts[k] = AlertFailed

\* C13: the accounts of a run are processed one after the other: the
\* request of account i+1 is not enqueued before the promise of account i
\* has settled, and at most one request of the run is queued or in flight.
C13_Sequential ==
  /\ \A i \in ItemIds : i + 1 < nextId => future[i] \in Settled
  /\ Cardinality({i \in ItemIds : future[i] = "pending"}) <= 1
  /\ Len(requestQueue) + Cardinality({w \in Loops : Holding(w)}) <= 1

\* The second account's request is in flight after the first one settled.
C13_Witness ==
  /\ runPc = "awaitAccount" /\ account = 2
  /\ future[1] \in Settled /\ future[2] = "pending"
  /\ \E w \in Loops : loop[w].pc = "inflight" /\ loop[w].item = 2

\* C16: the k-th entry of errors belongs to the k-th account that failed, in
\* the order of processing, and its prefix is the id of that account.
C16_ErrorsPrefixedById ==
  \A k \in 1..Len(syncProgress.errors) :
     \E i \in 1..syncProgress.totalAccounts :
        /\ future[i] = "rejected"
        /\ Cardinality({j \in 1..i : future[j] = "rejected"}) = k
        /\ syncProgress.errors[k].username = ConnectedAccount(i).id

\* C14: a run over n >= 1 accounts that completes has raised the "high
\* failure rate" alert exactly when 5 * failedAccounts > totalAccounts (3 of
\* 10 alerts, 2 of 10 does not), and no run raises it more than once.
C14_AlertThreshold ==
  LET raised == {k \in 1..Len(alerts) : alerts[k] = AlertHighFailure}
      n == syncProgress.totalAccounts
      f == syncProgress.failedAccounts
  IN /\ Cardinality(raised) <= 1
     /\ (runPc = "returned" /\ n >= 1) =>
           /\ (Cardinality(raised) = 1) = (5 * f > n)
           /\ (n = 10 /\ f = 3) => Cardinality(raised) = 1
           /\ (n = 10 /\ f = 2) => Cardinality(raised) = 0

\* 3 of 10 accounts failed and the run returned with the alert raised.
C14_Witness ==
  /\ runPc = "returned"
  /\ syncProgress.totalAccounts = 10 /\ syncProgress.failedAccounts = 3
  /\ alerts = <<AlertHighFailure>>

\* C15: invocations that overlap or start at the same instant write under
\* distinct sync-result keys: once all have finished the store holds the
\* record of each, none overwritten by another invocation.
C15_DistinctKeys ==
  (\A r \in Invocations : invocation[r].pc = "done") =>
     \A r \in Invocations :
        syncResults[SyncResultKey(invocation[r].syncId)].run = r

\* C17: whatever the checks meet, an invocation of handleHealthCheck ends by
\* returning, with all four checks executed, false recorded for each check
\* whose dependency threw, and the catch of the handler not entered by any
\* check (it is entered only when the put of the snapshot rejects).
C17_ChecksContained ==
  hpc = "done" =>
     /\ executed = CheckNames
     /\ henv.xApi = "throws" => ~healthChecks.xApi
     /\ (henv.testPut = "fails" \/ henv.testGet = "fails") => ~healthChecks.cache
     /\ henv.marker.kind \in {"unreadable", "garbled"} => ~healthChecks.lastSync
     /\ henv.snapshotPut = "ok" =>
           \A k \in 1..Len(healthAlerts) : healthAlerts[k] # AlertHealthError

\* The fetch threw and the marker could not be parsed; the cache check still
\* ran and passed.
C17_Witness ==
  /\ hpc = "done" /\ executed = CheckNames
  /\ henv.xApi = "throws" /\ henv.marker.kind = "garbled"
  /\ ~healthChecks.xApi /\ ~healthChecks.lastSync /\ healthChecks.cache

\* C18: an invocation that has returned raised exactly one health alert when
\* healthy (the conjunction of the checks) is false and none when it is
\* true, whether or not the put of the snapshot succeeded.
C18_OneAlertIffUnhealthy ==
  hpc = "done" =>
     Len(healthAlerts) = IF AllHealthy(healthChecks) THEN 0 ELSE 1

\* the marker exists and its age at time `at` is under 25 hours
Fresh(marker, at) ==
  marker.kind = "stamped" /\ at - marker.timestamp < 25 * HourMs

C20_Idempotent ==
  \A k \in 1..Len(snapshots) - 1 :
     LET a == snapshots[k]
         b == snapshots[k + 1]
     IN Fresh(henv.marker, a.at) = Fresh(henv.marker, b.at) =>
           /\ a.checks = b.checks
           /\ a.healthy = b.healthy

\* Two invocations, both healthy, the second one after the first had written
\* the test key and the snapshot.
C20_Witness ==
  /\ Len(snapshots) = 2 /\ hpc = "done"
  /\ snapshots[1].healthy /\ snapshots[2].healthy
  /\ cache.snapshot.stored /\ cache.test = TestValue(healthNow)

\* the loops that are alive: past the guard of processQueue, not yet returned
ActiveLoops == {w \in Loops : loop[w].pc # "idle"}

\* item i was enqueued and then dropped from the queue by clearQueue
Dropped(i) ==
  /\ future[i] = "pending" /\ ~Queued(i)
  /\ \A k \in 1..Len(dispatched) : dispatched[k] # i

\* C22: clearQueue() leaves the loops and the promises alone, and an item
\* that was dispatched is, at all times, either still held by its loop (in
\* flight, or in its slowdown or backoff wait) or settled with the outcome
\* of its own last call.
C22_InFlightSurvivesClear ==
  /\ [](\A k \in 1..Len(dispatched) :
          \/ \E w \in Loops : Holding(w) /\ loop[w].item = dispatched[k]
          \/ future[dispatched[k]] \in Settled)
  /\ [][ClearQueue => loop' = loop /\ future' = future]_vars

\* Item 2 was dropped by clearQueue while item 1 was held; item 1 has gone
\* on to its retry.
C22_Witness ==
  /\ Dropped(2)
  /\ \E w \in Loops : /\ loop[w].pc = "inflight" /\ loop[w].item = 1
                       /\ loop[w].attempt >= 1
  /\ ~isProcessing

\* C23: at most one loop of processQueue is alive at any time, and at most
\* one item is held, under every interleaving.
C23_SingleWorker ==
  /\ Cardinality(ActiveLoops) <= 1
  /\ Cardinality({w \in Loops : Holding(w)}) <= 1

\* C30: a non-empty queue always has some loop alive, and isProcessing is
\* only true while some loop is alive.
C30_NothingStranded ==
  /\ Len(requestQueue) > 0 => ActiveLoops # {}
  /\ isProcessing => ActiveLoops # {}

\* Two loops are alive after a clearQueue, one of them waiting for the
\* window with an item queued behind it.
C30_Witness ==
  /\ Len(requestQueue) > 0
  /\ Cardinality(ActiveLoops) = 2
  /\ \E w \in Loops : loop[w].pc = "windowWait"

\* a step that shifts an item out of the queue
Dispatches == Len(dispatched') > Len(dispatched)

\* C24: any two successive dispatches of one limiter are at least
\* requestDelayMs apart, also when the next item is enqueued only after the
\* previous one settled.
C24_Pacing ==
  [][(Dispatches /\ Len(dispatched) > 0) =>
        sinceDispatch >= config.requestDelayMs]_vars

\* C25: an item is dispatched either inside the live window with the count
\* under the quota, or at the moment the window is replaced because
\* windowDurationMs have passed since its start; a loop only starts waiting
\* for the window when the quota is used up, it then sleeps
\* windowDurationMs - (now - windowStart), and it goes on when that is over.
C25_WindowAdmission ==
  [][/\ Dispatches =>
          \/ /\ requestCount < config.maxRequestsPerWindow
             /\ sinceWindowStart < config.windowDurationMs
             /\ requestCount' = requestCount + 1
             /\ sinceWindowStart' = sinceWindowStart
          \/ /\ sinceWindowStart >= config.windowDurationMs
             /\ requestCount' = 1
             /\ sinceWindowStart' = 0
     /\ \A w \in Loops :
          (loop[w].pc # "windowWait" /\ loop'[w].pc = "windowWait") =>
             /\ requestCount' >= config.maxRequestsPerWindow
             /\ sinceWindowStart' < config.windowDurationMs
             /\ loop'[w].timer = config.windowDurationMs - sinceWindowStart'
     /\ \A w \in Loops :
          (loop[w].pc = "windowWait" /\ loop'[w].pc # "windowWait") =>
             loop[w].timer = 0
    ]_vars

\* The quota of two was dispatched and the loop waits for the rest of the
\* window with the third item queued.
C25_Witness ==
  /\ config.maxRequestsPerWindow = 2
  /\ dispatched = <<1, 2>> /\ requestQueue = <<3>> /\ requestCount = 2
  /\ \E w \in Loops :
        /\ loop[w].pc = "windowWait"
        /\ loop[w].timer = config.windowDurationMs - sinceWindowStart

\* the window is replaced: the count restarts together with windowStart
WindowReplaced ==
  /\ sinceWindowStart >= config.windowDurationMs
  /\ sinceWindowStart' = 0
  /\ requestCount' <= 1

\* C26: requestCount never exceeds maxRequestsPerWindow; it only grows by
\* one, except when the window is replaced, which happens only after
\* windowDurationMs and sets windowStart to now; windowStart never moves
\* back (the time since it only grows, or restarts at 0 on a replacement).
C26_CountWithinWindow ==
  /\ [](requestCount <= config.maxRequestsPerWindow)
  /\ [][ /\ \/ requestCount' = requestCount
            \/ requestCount' = requestCount + 1
            \/ WindowReplaced
         /\ \/ sinceWindowStart' >= sinceWindowStart
            \/ WindowReplaced]_vars

\* A window was replaced while two loops were alive.
C26_Witness ==
  /\ Len(dispatched) >= 2 /\ requestCount = 1 /\ sinceWindowStart = 0
  /\ Cardinality(ActiveLoops) = 2

\* C27: an item that succeeds after k retryable failures was invoked k + 1
\* times with k backoff waits; the wait after attempt a is
\* min(1000 * 2^a, 60000) ms (1000 ms after the first failure, never above
\* 60000), it runs down with the clock only, and the retry is made when it
\* is over.
C27_RetrySchedule ==
  /\ []( /\ \A a \in 0..MaxAttempt :
              /\ backoffTime(a) = IF a >= 6 THEN 60000 ELSE 1000 * Pow2(a)
              /\ backoffTime(a) >= 1000 /\ backoffTime(a) <= 60000
         /\ lastSettled.how = "resolved" =>
              /\ lastSettled.calls = lastSettled.attempt + 1
              /\ lastSettled.backoffs = lastSettled.attempt
              /\ lastSettled.attempt <= config.maxRetries)
  /\ [][ \A w \in Loops :
          /\ (loop[w].pc # "backoff" /\ loop'[w].pc = "backoff") =>
                /\ loop'[w].timer = Min(1000 * Pow2(loop[w].attempt), 60000)
                /\ loop'[w].attempt = loop[w].attempt
          /\ (loop[w].pc = "backoff" /\ loop'[w].pc = "backoff") =>
                \/ loop'[w].timer = loop[w].timer
                \/ /\ loop'[w].timer >= loop[w].timer - TickMs
                   /\ sinceDispatch' >= sinceDispatch
                   /\ UNCHANGED <<requestQueue, future, dispatched>>
          /\ (loop[w].pc = "backoff" /\ loop'[w].pc # "backoff") =>
                /\ loop[w].timer = 0
                /\ loop'[w].pc = "inflight"
                /\ loop'[w].attempt = loop[w].attempt + 1
                /\ loop'[w].calls = loop[w].calls + 1]_vars

\* An item succeeded on its third invocation, after waits of 1000 and 2000 ms.
C27_Witness ==
  /\ lastSettled.how = "resolved"
  /\ lastSettled.calls = 3 /\ lastSettled.backoffs = 2

\* C28: while the delay of 2 * requestDelayMs that a response with
\* remaining / limit < 0.15 started has not elapsed, no item is dispatched
\* from the queue.
C28_SlowdownBeforeNextDispatch ==
  [][Dispatches => \A w \in Loops : loop[w].pc # "slowdown"]_vars

\* the requests the trigger answered with the given status
Answered(status) == {k \in 1..Len(responses) : responses[k] = status}

C29_MarkerOnReturn ==
  /\ []( /\ schedPc = "done" =>
              markerWrites = 1 /\ lastSuccessfulSync = DailyMarker
         /\ schedPc # "done" =>
              markerWrites = 0 /\ lastSuccessfulSync = NoMarker)
  /\ [][ /\ (lastSuccessfulSync' # lastSuccessfulSync \/ markerWrites' # markerWrites) =>
             /\ schedPc = "awaitRun" /\ startedBy = "cron"
             /\ runPc = "returned" /\ signaled = NoError
             /\ lastSuccessfulSync' = DailyMarker
             /\ markerWrites' = markerWrites + 1
         /\ (schedPc = "awaitRun" /\ schedPc' # "awaitRun") =>
             IF runPc = "returned"
             THEN schedPc' \in {"done", "putRejected"}
             ELSE /\ runPc = "thrown" /\ signaled # NoError
                  /\ schedPc' = "rethrown"
         /\ (fired' # fired \/ responses' # responses) =>
             UNCHANGED <<lastSuccessfulSync, markerWrites, schedPc>>]_vars

\* The daily run whose only account failed has returned and the marker was
\* written; the other cron expressions have fired as well.
C29_Witness ==
  /\ schedPc = "done" /\ markerWrites = 1 /\ lastSuccessfulSync = DailyMarker
  /\ startedBy = "cron" /\ runPc = "returned"
  /\ syncProgress.totalAccounts = 1 /\ syncProgress.failedAccounts = 1
  /\ fired = OtherCrons
====
